---- MODULE Spec2Model ----
(***************************************************************************)
(* Meeting-hall booking board (privatep88/hall).                           *)
(*                                                                         *)
(* The model covers the booking set kept by App (src/App.tsx), the write   *)
(* path handleSaveBooking / handleDeleteBooking with its conflict check,   *)
(* the persistence effect, and the two row layouts: the on-screen scan of  *)
(* ScheduleTable (src/unnamed/part_000) and the export scan of             *)
(* handleExportToExcel (src/App.tsx).                                      *)
(*                                                                         *)
(* Time labels are zero-padded "HH:MM" strings which the code compares     *)
(* with the JavaScript string order; the model names each label by its     *)
(* minute of the day, which has the same order ("" sorts before all of     *)
(* them and is named 0).  Dates are "YYYY-MM-DD" strings that the code     *)
(* only compares for equality; the model names a date by its day number.   *)
(* Ids are strings compared for equality: the seed ids '1','2','3' are     *)
(* named 1, 2, 3 and the ISO timestamp of clock reading t is IsoBase + t.  *)
(* An optional value (undefined in the code) is a sequence of length 0 or  *)
(* 1.                                                                      *)
(***************************************************************************)
EXTENDS Integers, Sequences, FiniteSets, TLC

VARIABLES
    bookings,           \* App state `bookings` (array of Booking)
    selectedHall,       \* App state `selectedHall`
    modalInfo,          \* App state `modalInfo`
    hasUnsavedChanges,  \* App state `hasUnsavedChanges`
    storage,            \* localStorage item 'hallBookings'
    wrote,              \* outcome of the last localStorage.setItem
    thrown,             \* error raised by the last handler call
    last,               \* the last handler call: its name and arguments
    dayBookings,        \* layout input: the bookings of one hall and one day
    cells,              \* output of the ScheduleTable row scan
    row,                \* slot columns of the exported row
    merges,             \* merge regions the export added for the row
    done,               \* which of the two layouts have been applied
    step,               \* position of the end-to-end scenario
    currentView,        \* App state `currentView`
    currentDate,        \* App state `currentDate`: the displayed month
    saveStatus,         \* App state `saveStatus`
    timers,             \* pending callbacks of setTimeout(..., 2000)
    bookingColorMap,    \* ScheduleTable ref `bookingColorMap`
    lastColorIndex,     \* ScheduleTable ref `lastColorIndex`
    painted             \* the colour each booking id was last rendered with

vars == <<bookings, selectedHall, modalInfo, hasUnsavedChanges, storage, wrote,
          thrown, last, dayBookings, cells, row, merges, done, step,
          currentView, currentDate, saveStatus, timers,
          bookingColorMap, lastColorIndex, painted>>

appVars == <<bookings, selectedHall, modalInfo, hasUnsavedChanges, storage, wrote,
             thrown, last, currentView>>

layoutVars == <<dayBookings, cells, row, merges, done>>

scenarioVars == <<step>>

viewVars == <<currentDate, saveStatus, timers, bookingColorMap, lastColorIndex, painted>>

-----------------------------------------------------------------------------
(* Bounds of the model *)

MaxBookings == 2        \* a create is taken only below this many bookings
MaxDayBookings == 2     \* bookings of one hall and day handed to a layout
MaxPendingTimers == 2   \* reset timers of the save confirmation not yet fired

(* Input sets *)

InputDates == {1, 2}                \* dates the modal submits
StartDays == {1}                    \* day on which the application starts
ClockReadings == {1, 2}             \* values `new Date()` returns at a create
\* [time, endTime) the modal submits: 09:00-10:00, 10:00-11:00, 09:00-11:00 and
\* the zero-length 10:00-10:00
InputRanges == {<<540, 600>>, <<600, 660>>, <<540, 660>>, <<600, 600>>}
\* department and notes the modal submits, one pair for each input date
InputDetails == <<  <<"HR", "">>, <<"IT", "agenda">>  >>
\* the empty cells the model clicks
ClickDates == {1}
ClickTimes == {600}

-----------------------------------------------------------------------------
(* Program constants *)

AlWaha == "AlWaha"
AlDana == "AlDana"
Halls == {AlWaha, AlDana}

\* '07:30', '08:00', '09:00', ..., '18:00' as minutes of the day
timeSlots == <<450, 480, 540, 600, 660, 720, 780, 840, 900, 960, 1020, 1080>>

EmptyTime == 0          \* the string ''
IsoBase == 100

\* variant: the last label is kept as a column
displayTimeSlots_all == timeSlots

\* timeSlots.slice(0, -1)
displayTimeSlots == SubSeq(timeSlots, 1, Len(timeSlots) - 1)

-----------------------------------------------------------------------------
(* Values *)

Booking(id, hallId, date, time, endTime, department, notes) ==
    [id |-> id, hallId |-> hallId, date |-> date, time |-> time,
     endTime |-> endTime, department |-> department, notes |-> notes]

\* Omit<Booking, 'id' | 'hallId'>: what the modal hands to handleSaveBooking
BookingData(date, time, endTime, department, notes) ==
    [date |-> date, time |-> time, endTime |-> endTime,
     department |-> department, notes |-> notes]

DataOf(b) == BookingData(b.date, b.time, b.endTime, b.department, b.notes)

\* { isOpen: false }
ClosedModal == [isOpen |-> FALSE, bookingToEdit |-> <<>>, date |-> <<>>, time |-> <<>>]

\* new Date().toISOString() at clock reading t
toISOString(t) == IsoBase + t

\* timeSlots.indexOf(x): 0-based index of the first occurrence, -1 if absent
Range(s) == {s[k] : k \in DOMAIN s}

RECURSIVE indexFrom(_, _, _)
indexFrom(seq, x, k) ==
    IF k > Len(seq) THEN -1
    ELSE IF seq[k] = x THEN k - 1
    ELSE indexFrom(seq, x, k + 1)

\* variant: the index is counted from 1
indexOf_oneBased(seq, x) == indexFrom(seq, x, 1) + 1

indexOf(seq, x) == indexFrom(seq, x, 1)

\* variant: only the first booking of the day is looked at
findByTime_headOnly(seq, time) ==
    IF seq # <<>> /\ Head(seq).time = time THEN <<Head(seq)>> ELSE <<>>

\* dayBookings.find(b => b.time === time): the first booking that starts at
\* `time`, or undefined
RECURSIVE findByTime(_, _)
findByTime(seq, time) ==
    IF seq = <<>> THEN <<>>
    ELSE IF Head(seq).time = time THEN <<Head(seq)>>
    ELSE findByTime(Tail(seq), time)

\* bookings.find(b => b.id === bookingId)
RECURSIVE findById(_, _)
findById(seq, bookingId) ==
    IF seq = <<>> THEN <<>>
    ELSE IF Head(seq).id = bookingId THEN <<Head(seq)>>
    ELSE findById(Tail(seq), bookingId)

-----------------------------------------------------------------------------
(* Seed, load and persistence *)

\* variant: the ids are numbered from the day of the startup
generateInitialBookings_datedIds(today) ==
    << Booking(today, AlWaha, today, 540, 660, "HumanResources", "interviews"),
       Booking(today + 1, AlWaha, today + 1, 660, 720, "IT", "support"),
       Booking(today + 2, AlDana, today + 2, 840, 960, "Marketing", "workshop") >>

\* today, tomorrow and dayAfter are read from the clock when the seed is built
generateInitialBookings(today) ==
    << Booking(1, AlWaha, today, 540, 660, "HumanResources", "interviews"),
       Booking(2, AlWaha, today + 1, 660, 720, "IT", "support"),
       Booking(3, AlDana, today + 2, 840, 960, "Marketing", "workshop") >>

\* JSON.stringify(bookings): the text lists, for each booking in order, the
\* values of its properties
JSONstringify(bks) ==
    [text |-> "json",
     value |-> [k \in 1..Len(bks) |->
                  << bks[k].id, bks[k].hallId, bks[k].date, bks[k].time,
                     bks[k].endTime, bks[k].department, bks[k].notes >>]]

\* JSON.parse(savedBookings) of a text JSON.stringify wrote
JSONparse(item) ==
    [k \in 1..Len(item.value) |->
        Booking(item.value[k][1], item.value[k][2], item.value[k][3], item.value[k][4],
                item.value[k][5], item.value[k][6], item.value[k][7])]

\* variant: a stored empty set is taken for no stored set
loadBookings_seedWhenEmpty(item, today) ==
    IF item = <<>> THEN generateInitialBookings(today)
    ELSE IF item[1].text = "empty" THEN generateInitialBookings(today)
    ELSE IF item[1].text = "json"
         THEN IF JSONparse(item[1]) = <<>>
              THEN generateInitialBookings(today)
              ELSE JSONparse(item[1])
    ELSE generateInitialBookings(today)

\* variant: a value that cannot be parsed gives the empty set
loadBookings_emptyOnFailure(item, today) ==
    IF item = <<>> THEN generateInitialBookings(today)
    ELSE IF item[1].text = "empty" THEN generateInitialBookings(today)
    ELSE IF item[1].text = "json" THEN JSONparse(item[1])
    ELSE <<>>

\* the useState initialiser of `bookings`; item is the stored item, if any
loadBookings(item, today) ==
    IF item = <<>> THEN generateInitialBookings(today)          \* getItem gave null
    ELSE IF item[1].text = "empty" THEN generateInitialBookings(today)  \* '' is falsy
    ELSE IF item[1].text = "json" THEN JSONparse(item[1])       \* JSON.parse
    ELSE generateInitialBookings(today)                         \* JSON.parse threw

\* variant: an empty booking set is not written
persistBookings_skipEmpty(bks, item, ok) ==
    IF ok /\ bks # <<>> THEN <<JSONstringify(bks)>> ELSE item

\* the useEffect on [bookings]: localStorage.setItem, its failure swallowed
persistBookings(bks, item, ok) ==
    IF ok THEN <<JSONstringify(bks)>> ELSE item

\* whether the last setItem of the effect returned or threw
setItemOutcome(ok) == IF ok THEN "ok" ELSE "failed"

\* what localStorage may hold when the application starts
InitialStorage ==
    { <<>>, <<[text |-> "garbage", value |-> <<>>]>>, <<JSONstringify(<<>>)>> }

-----------------------------------------------------------------------------
(* ScheduleTable: the cells of one day row *)

\* <EmptyCell key={time} ... onClick={() => onCellClick(day, time)} />
EmptyCell(i, time) ==
    [kind |-> "empty", col |-> i, time |-> time, span |-> 1, id |-> 0, department |-> ""]

\* <td key={booking.id} colSpan={span} onClick={() => onBookingClick(booking.id)}>
BookingCell(i, booking, span) ==
    [kind |-> "occupied", col |-> i, time |-> booking.time, span |-> span,
     id |-> booking.id, department |-> booking.department]

\* variant: the end slot is counted in
screenSpan_plusOne(startTimeIndex, endTimeIndex) == endTimeIndex - startTimeIndex + 1

\* const span = endTimeIndex - startTimeIndex
screenSpan(startTimeIndex, endTimeIndex) == endTimeIndex - startTimeIndex

\* the for loop over displayTimeSlots, from index i with `acc` already pushed
RECURSIVE scanRow(_, _, _)
scanRow(allDayBookings, i, acc) ==
    IF ~(i < Len(displayTimeSlots)) THEN acc
    ELSE
        LET time == timeSlots[i + 1]
            booking == findByTime(allDayBookings, time)
        IN  IF booking # <<>>
            THEN LET startTimeIndex == i
                     endTimeIndex == indexOf(timeSlots, booking[1].endTime)
                 IN  IF endTimeIndex > startTimeIndex
                     THEN LET span == screenSpan(startTimeIndex, endTimeIndex)
                          IN  scanRow(allDayBookings, i + span,
                                      Append(acc, BookingCell(i, booking[1], span)))
                     ELSE scanRow(allDayBookings, i + 1, Append(acc, EmptyCell(i, time)))
            ELSE scanRow(allDayBookings, i + 1, Append(acc, EmptyCell(i, time)))

\* the slot cells ScheduleTable renders for a day with these bookings
ScheduleRow(allDayBookings) == scanRow(allDayBookings, 0, <<>>)

\* the palette, ten colours
bookingColors ==
    << "blue", "teal", "green", "indigo", "purple", "pink", "sky", "cyan", "emerald",
       "rose" >>

\* the two refs of a ScheduleTable that was just mounted: new Map() and -1
NewRefs == [map |-> <<>>, last |-> -1]

\* getBookingColor(bookingId): the refs it leaves; the colour it returns is
\* bookingColors[map[bookingId] + 1]
getBookingColor(refs, bookingId) ==
    IF bookingId \in DOMAIN refs.map THEN refs
    ELSE [map |-> refs.map @@ (bookingId :> ((refs.last + 1) % Len(bookingColors))),
          last |-> (refs.last + 1) % Len(bookingColors)]

\* the ids the scan of one row hands to getBookingColor, in the order of the
\* calls: the call comes before the test of endTimeIndex
RECURSIVE scanColorCalls(_, _, _)
scanColorCalls(allDayBookings, i, acc) ==
    IF ~(i < Len(displayTimeSlots)) THEN acc
    ELSE
        LET time == timeSlots[i + 1]
            booking == findByTime(allDayBookings, time)
        IN  IF booking # <<>>
            THEN LET startTimeIndex == i
                     endTimeIndex == indexOf(timeSlots, booking[1].endTime)
                 IN  IF endTimeIndex > startTimeIndex
                     THEN scanColorCalls(allDayBookings,
                                         i + screenSpan(startTimeIndex, endTimeIndex),
                                         Append(acc, booking[1].id))
                     ELSE scanColorCalls(allDayBookings, i + 1, Append(acc, booking[1].id))
            ELSE scanColorCalls(allDayBookings, i + 1, acc)

\* the refs after the calls for these ids, in order
RECURSIVE applyColorCalls(_, _)
applyColorCalls(refs, ids) ==
    IF ids = <<>> THEN refs
    ELSE applyColorCalls(getBookingColor(refs, Head(ids)), Tail(ids))

-----------------------------------------------------------------------------
(* handleExportToExcel: one day row of the sheet *)

Entry(kind, text) == [kind |-> kind, text |-> text]

NullEntry == Entry("null", "")          \* row.push(null)
BlankEntry == Entry("blank", "")        \* row.push('')

\* variant: every booking is given one column
exportSpan_alwaysOne(startTimeIndex, endTimeIndex) == 1

\* variant: the distance between the two indices, whichever comes first
exportSpan_distance(startTimeIndex, endTimeIndex) ==
    IF endTimeIndex > startTimeIndex THEN endTimeIndex - startTimeIndex
    ELSE IF startTimeIndex > endTimeIndex THEN startTimeIndex - endTimeIndex
    ELSE 1

\* const span = endTimeIndex > startTimeIndex ? endTimeIndex - startTimeIndex : 1
exportSpan(startTimeIndex, endTimeIndex) ==
    IF endTimeIndex > startTimeIndex THEN endTimeIndex - startTimeIndex ELSE 1

\* merges.push({ s: { r: rowIndex, c: 3 + i }, e: { r: rowIndex, c: 3 + i + span - 1 } })
MergeRange(rowIndex, i, span) ==
    [s |-> [r |-> rowIndex, c |-> 3 + i], e |-> [r |-> rowIndex, c |-> 3 + i + span - 1]]

\* variant: the loop runs while j <= span
nullEntries_upToSpan(span) == [j \in 1..span |-> NullEntry]

\* for (let j = 1; j < span; j++) row.push(null)
nullEntries(span) == [j \in 1..(span - 1) |-> NullEntry]

\* the for loop over displayTimeSlots, from index i
RECURSIVE exportScan(_, _, _, _, _)
exportScan(dayBks, rowIndex, i, rowAcc, mergeAcc) ==
    IF ~(i < Len(displayTimeSlots)) THEN [row |-> rowAcc, merges |-> mergeAcc]
    ELSE
        LET time == timeSlots[i + 1]
            booking == findByTime(dayBks, time)
        IN  IF booking # <<>>
            THEN LET startTimeIndex == indexOf(timeSlots, booking[1].time)
                     endTimeIndex == indexOf(timeSlots, booking[1].endTime)
                     span == exportSpan(startTimeIndex, endTimeIndex)
                 IN  exportScan(dayBks, rowIndex, i + span,
                                Append(rowAcc, Entry("department", booking[1].department))
                                    \o nullEntries(span),
                                IF span > 1
                                THEN Append(mergeAcc, MergeRange(rowIndex, i, span))
                                ELSE mergeAcc)
            ELSE exportScan(dayBks, rowIndex, i + 1, Append(rowAcc, BlankEntry), mergeAcc)

\* dayBookings.map(b => b.notes).filter(Boolean): the parts that are joined
noteParts(dayBks) ==
    LET notesOf == [k \in 1..Len(dayBks) |-> dayBks[k].notes]
        nonEmpty(n) == n # ""
    IN  SelectSeq(notesOf, nonEmpty)

\* ['م', 'اليوم', 'التاريخ', ...displayTimeSlots, 'الملاحظات']
headerRow2 ==
    << Entry("header", "index"), Entry("header", "weekday"), Entry("header", "date") >>
    \o [k \in 1..Len(displayTimeSlots) |-> Entry("header", "slot")]
    \o << Entry("header", "notes") >>

\* the body of daysInMonth.forEach for one day: the pushed row and the merges
\* it adds
ExportRow(dayBks, rowIndex) ==
    LET head == << Entry("index", ""), Entry("weekday", ""), Entry("date", "") >>
        scan == exportScan(dayBks, rowIndex, 0, head, <<>>)
    IN  [row |-> Append(scan.row, Entry("notes", "")),
         notes |-> noteParts(dayBks),
         merges |-> scan.merges]

\* const rowIndex = sheetData.length, for the first day: title, [], two headers
FirstRowIndex == 4

-----------------------------------------------------------------------------
(* App: what is on screen *)

\* the days of the displayed months
Days == {1, 2, 3}

\* bookings.filter(b => b.hallId === selectedHall), then bookingsByDate[date]
hallDayBookings(bks, hall, date) ==
    LET shown(b) == b.hallId = hall /\ b.date = date
    IN  SelectSeq(bks, shown)

\* the cells of the row of `day` in the ScheduleTable App renders
ScreenRow(bks, hall, day) == ScheduleRow(hallDayBookings(bks, hall, day))

\* the months the selects offer
Months == {1, 2}

\* daysInMonth for the displayed month: days 1 and 2 are in month 1, day 3 is
\* in month 2
daysInMonth(month) == IF month = 1 THEN <<1, 2>> ELSE <<3>>

\* the ids handed to getBookingColor when the table of these days is rendered,
\* row after row
RECURSIVE tableColorCalls(_, _, _)
tableColorCalls(bks, hall, days) ==
    IF days = <<>> THEN <<>>
    ELSE scanColorCalls(hallDayBookings(bks, hall, Head(days)), 0, <<>>)
         \o tableColorCalls(bks, hall, Tail(days))

\* variant: the default end is taken only when two labels follow the start
defaultEndTime_twoAhead(startTimeIndex) ==
    IF startTimeIndex # -1 /\ startTimeIndex + 2 < Len(timeSlots)
    THEN timeSlots[startTimeIndex + 2]
    ELSE EmptyTime

\* startTimeIndex !== -1 && startTimeIndex + 1 < timeSlots.length
\*     ? timeSlots[startTimeIndex + 1] : ''
defaultEndTime(startTimeIndex) ==
    IF startTimeIndex # -1 /\ startTimeIndex + 1 < Len(timeSlots)
    THEN timeSlots[startTimeIndex + 2]
    ELSE EmptyTime

\* getModalInitialData() for modal state mi: the initial data, or null
getModalInitialData(mi) ==
    IF mi.bookingToEdit # <<>>
    THEN << DataOf(mi.bookingToEdit[1]) >>
    ELSE IF mi.date # <<>> /\ mi.time # <<>> /\ mi.time[1] # EmptyTime
    THEN << BookingData(mi.date[1], mi.time[1],
                        defaultEndTime(indexOf(timeSlots, mi.time[1])), "", "") >>
    ELSE <<>>

-----------------------------------------------------------------------------
(* App: the conflict check of handleSaveBooking *)

\* const currentHall = modalInfo.bookingToEdit ? modalInfo.bookingToEdit.hallId : selectedHall
currentHallOf(mi, hall) ==
    IF mi.bookingToEdit # <<>> THEN mi.bookingToEdit[1].hallId ELSE hall

\* variant: only a candidate that starts inside the booking is taken to overlap
timeOverlap_startInside(bookingData, b) ==
    bookingData.time >= b.time /\ bookingData.time < b.endTime

\* variant: only a candidate with the same start time is taken to overlap
timeOverlap_sameStart(bookingData, b) ==
    bookingData.time = b.time

\* variant: the comparisons admit equality, so touching ranges overlap
timeOverlap_inclusive(bookingData, b) ==
    bookingData.time <= b.endTime /\ bookingData.endTime >= b.time

\* bookingData.time < b.endTime && bookingData.endTime > b.time
timeOverlap(bookingData, b) ==
    bookingData.time < b.endTime /\ bookingData.endTime > b.time

\* variant: the hall is not compared
sameHallAndDate_anyHall(b, currentHall, bookingData) ==
    b.date = bookingData.date

\* b.hallId === currentHall && b.date === bookingData.date
sameHallAndDate(b, currentHall, bookingData) ==
    b.hallId = currentHall /\ b.date = bookingData.date

\* variant: the booking being edited is not skipped
isSelf_never(b, mi) == FALSE

\* modalInfo.bookingToEdit && b.id === modalInfo.bookingToEdit.id
isSelf(b, mi) ==
    mi.bookingToEdit # <<>> /\ b.id = mi.bookingToEdit[1].id

\* the callback handed to bookings.some
conflictsWith(b, mi, currentHall, bookingData) ==
    IF isSelf(b, mi) THEN FALSE
    ELSE IF sameHallAndDate(b, currentHall, bookingData)
         THEN timeOverlap(bookingData, b)
         ELSE FALSE

\* bookings.some(...)
RECURSIVE someConflict(_, _, _, _)
someConflict(bks, mi, currentHall, bookingData) ==
    IF bks = <<>> THEN FALSE
    ELSE IF conflictsWith(Head(bks), mi, currentHall, bookingData) THEN TRUE
    ELSE someConflict(Tail(bks), mi, currentHall, bookingData)

hasConflict(bks, mi, hall, bookingData) ==
    someConflict(bks, mi, currentHallOf(mi, hall), bookingData)

\* variant: the edited booking keeps its endTime
updatedBooking_keepsEnd(bookingToEdit, bookingData) ==
    Booking(bookingToEdit.id, bookingToEdit.hallId, bookingData.date, bookingData.time,
            bookingToEdit.endTime, bookingData.department, bookingData.notes)

\* { ...modalInfo.bookingToEdit, ...bookingData }
updatedBooking(bookingToEdit, bookingData) ==
    Booking(bookingToEdit.id, bookingToEdit.hallId, bookingData.date, bookingData.time,
            bookingData.endTime, bookingData.department, bookingData.notes)

\* bookings.map(b => b.id === modalInfo.bookingToEdit.id ? {...} : b)
updateBookings(bks, bookingToEdit, bookingData) ==
    [k \in 1..Len(bks) |->
        IF bks[k].id = bookingToEdit.id
        THEN updatedBooking(bookingToEdit, bookingData)
        ELSE bks[k]]

\* variant: the new booking is put in the first hall
newBooking_firstHall(bookingData, t, hall) ==
    Booking(toISOString(t), AlWaha, bookingData.date, bookingData.time,
            bookingData.endTime, bookingData.department, bookingData.notes)

\* variant: the end time is filled from the start time
newBooking_endAtStart(bookingData, t, hall) ==
    Booking(toISOString(t), hall, bookingData.date, bookingData.time,
            bookingData.time, bookingData.department, bookingData.notes)

\* { ...bookingData, id: new Date().toISOString(), hallId: selectedHall }
newBooking(bookingData, t, hall) ==
    Booking(toISOString(t), hall, bookingData.date, bookingData.time,
            bookingData.endTime, bookingData.department, bookingData.notes)

\* the array handed to setBookings when the save is not refused
savedBookings(bks, mi, hall, bookingData, t) ==
    IF mi.bookingToEdit # <<>>
    THEN updateBookings(bks, mi.bookingToEdit[1], bookingData)
    ELSE Append(bks, newBooking(bookingData, t, hall))

\* bookings.filter(b => b.id !== modalInfo.bookingToEdit.id)
removeBooking(bks, bookingToEdit) ==
    LET kept(b) == b.id # bookingToEdit.id
    IN  SelectSeq(bks, kept)

-----------------------------------------------------------------------------
(* App: handlers *)

\* the last handler call: "save", "delete" or "other", whether a booking was
\* being edited, and whether the submitted candidate kept that booking's date
\* and time range
Call(op, edit, sameRange) == [op |-> op, edit |-> edit, sameRange |-> sameRange]

NoCall(op) == Call(op, FALSE, FALSE)

\* the candidate keeps the date and the time range of the booking being edited
keepsRange(mi, bookingData) ==
    /\ mi.bookingToEdit # <<>>
    /\ bookingData.date = mi.bookingToEdit[1].date
    /\ bookingData.time = mi.bookingToEdit[1].time
    /\ bookingData.endTime = mi.bookingToEdit[1].endTime

handleCellClick(date, time) ==
    /\ modalInfo' = [isOpen |-> TRUE, bookingToEdit |-> <<>>, date |-> <<date>>,
                     time |-> <<time>>]
    /\ thrown' = "none"
    /\ last' = NoCall("other")
    /\ UNCHANGED <<bookings, selectedHall, hasUnsavedChanges, storage, wrote,
                   currentView>>

handleBookingClick(bookingId) ==
    LET bookingToEdit == findById(bookings, bookingId)
    IN  /\ modalInfo' = IF bookingToEdit # <<>>
                        THEN [isOpen |-> TRUE, bookingToEdit |-> bookingToEdit,
                              date |-> <<>>, time |-> <<>>]
                        ELSE modalInfo
        /\ thrown' = "none"
        /\ last' = NoCall("other")
        /\ UNCHANGED <<bookings, selectedHall, hasUnsavedChanges, storage, wrote,
                   currentView>>

handleCloseModal ==
    /\ modalInfo' = ClosedModal
    /\ thrown' = "none"
    /\ last' = NoCall("other")
    /\ UNCHANGED <<bookings, selectedHall, hasUnsavedChanges, storage, wrote,
                   currentView>>

AppState(bks, mi, unsaved, item, err) ==
    [bookings |-> bks, modalInfo |-> mi, hasUnsavedChanges |-> unsaved,
     storage |-> item, thrown |-> err]

\* variant: a conflict is reported after the change tracker is set and the
\* modal is closed
saveBooking_dirtyOnConflict(bks, hall, mi, unsaved, item, bookingData, t, writeOk) ==
    IF hasConflict(bks, mi, hall, bookingData)
    THEN AppState(bks, ClosedModal, TRUE, item, "conflict")
    ELSE AppState(savedBookings(bks, mi, hall, bookingData, t),
                  ClosedModal,
                  TRUE,
                  persistBookings(savedBookings(bks, mi, hall, bookingData, t), item, writeOk),
                  "none")

\* variant: a write that fails undoes the change and is reported
saveBooking_undoOnFailedWrite(bks, hall, mi, unsaved, item, bookingData, t, writeOk) ==
    IF hasConflict(bks, mi, hall, bookingData)
    THEN AppState(bks, mi, unsaved, item, "conflict")
    ELSE IF ~writeOk
    THEN AppState(bks, mi, unsaved, item, "write")
    ELSE AppState(savedBookings(bks, mi, hall, bookingData, t),
                  ClosedModal,
                  TRUE,
                  persistBookings(savedBookings(bks, mi, hall, bookingData, t), item, writeOk),
                  "none")

\* handleSaveBooking as a function of the state it reads: the state it leaves.
\* t is the clock reading of `new Date()`, writeOk whether setItem succeeds in
\* the effect that follows setBookings
saveBooking(bks, hall, mi, unsaved, item, bookingData, t, writeOk) ==
    IF hasConflict(bks, mi, hall, bookingData)
    THEN \* throw new Error(...): nothing is set
         AppState(bks, mi, unsaved, item, "conflict")
    ELSE AppState(savedBookings(bks, mi, hall, bookingData, t),
                  ClosedModal,
                  TRUE,
                  persistBookings(savedBookings(bks, mi, hall, bookingData, t), item, writeOk),
                  "none")

handleSaveBooking(bookingData, t, writeOk) ==
    /\ last' = Call("save", modalInfo.bookingToEdit # <<>>,
                    keepsRange(modalInfo, bookingData))
    /\ bookings' = saveBooking(bookings, selectedHall, modalInfo, hasUnsavedChanges,
                               storage, bookingData, t, writeOk).bookings
    /\ modalInfo' = saveBooking(bookings, selectedHall, modalInfo, hasUnsavedChanges,
                                storage, bookingData, t, writeOk).modalInfo
    /\ hasUnsavedChanges' = saveBooking(bookings, selectedHall, modalInfo, hasUnsavedChanges,
                                        storage, bookingData, t, writeOk).hasUnsavedChanges
    /\ storage' = saveBooking(bookings, selectedHall, modalInfo, hasUnsavedChanges,
                              storage, bookingData, t, writeOk).storage
    /\ thrown' = saveBooking(bookings, selectedHall, modalInfo, hasUnsavedChanges,
                             storage, bookingData, t, writeOk).thrown
    \* the effect runs only when setBookings was reached
    /\ wrote' = IF hasConflict(bookings, modalInfo, selectedHall, bookingData)
                THEN wrote
                ELSE setItemOutcome(writeOk)
    /\ UNCHANGED <<selectedHall, currentView>>

handleDeleteBooking(writeOk) ==
    /\ thrown' = "none"
    /\ last' = NoCall("delete")
    /\ IF modalInfo.bookingToEdit # <<>>
       THEN /\ bookings' = removeBooking(bookings, modalInfo.bookingToEdit[1])
            /\ hasUnsavedChanges' = TRUE
            /\ modalInfo' = ClosedModal
            /\ storage' = persistBookings(bookings', storage, writeOk)
            /\ wrote' = setItemOutcome(writeOk)
            /\ UNCHANGED <<selectedHall, currentView>>
       ELSE UNCHANGED <<bookings, selectedHall, modalInfo, hasUnsavedChanges, storage, wrote,
                        currentView>>

\* handleSaveChanges: 'saving' and 'saved' are set in the same handler, so
\* 'saved' is what the next render shows; the reset is left to a timer
handleSaveChanges ==
    /\ hasUnsavedChanges' = FALSE
    /\ saveStatus' = "saved"
    /\ timers' = timers + 1
    /\ thrown' = "none"
    /\ last' = NoCall("other")
    /\ UNCHANGED <<bookings, selectedHall, modalInfo, storage, wrote, currentView>>

\* the callback of the oldest pending timer: () => setSaveStatus('idle')
resetSaveStatus ==
    /\ saveStatus' = "idle"
    /\ timers' = timers - 1
    /\ UNCHANGED <<bookings, selectedHall, modalInfo, hasUnsavedChanges, storage, wrote,
                   thrown, last, currentView>>

\* onClick of a hall button: setSelectedHall(hall.id); setCurrentView('calendar')
selectHall(hall) ==
    /\ selectedHall' = hall
    /\ currentView' = "calendar"
    /\ thrown' = "none"
    /\ last' = NoCall("other")
    /\ UNCHANGED <<bookings, modalInfo, hasUnsavedChanges, storage, wrote>>

-----------------------------------------------------------------------------
(* App: the state machine *)

BookingInputs ==
    { BookingData(d, r[1], r[2], InputDetails[d][1], InputDetails[d][2]) :
        d \in InputDates, r \in InputRanges }

\* the view state of a page that was just loaded, nothing rendered yet
ViewIdle ==
    /\ currentDate = 1
    /\ saveStatus = "idle"
    /\ timers = 0
    /\ bookingColorMap = <<>>
    /\ lastColorIndex = -1
    /\ painted = <<>>

LayoutIdle ==
    /\ dayBookings = <<>>
    /\ cells = <<>>
    /\ row = <<>>
    /\ merges = <<>>
    /\ done = {}

Init ==
    /\ \E item \in InitialStorage, today \in StartDays :
          /\ bookings = loadBookings(item, today)
          /\ storage = persistBookings(bookings, item, TRUE)
    /\ wrote = setItemOutcome(TRUE)
    /\ selectedHall = AlWaha
    /\ modalInfo = ClosedModal
    /\ hasUnsavedChanges = FALSE
    /\ thrown = "none"
    /\ last = NoCall("other")
    /\ LayoutIdle
    /\ step = 0
    /\ currentView = "calendar"
    /\ ViewIdle

\* an empty cell of the displayed table is clicked
CellClick ==
    \E day \in ClickDates, time \in ClickTimes :
        /\ \E cell \in Range(ScreenRow(bookings, selectedHall, day)) : cell.kind = "empty" /\ cell.time = time
        /\ handleCellClick(day, time)
            /\ UNCHANGED <<layoutVars, scenarioVars, viewVars>>

\* an occupied cell of the displayed table is clicked
BookingClick ==
    \E day \in Days :
        \E cell \in Range(ScreenRow(bookings, selectedHall, day)) :
                /\ cell.kind = "occupied"
                /\ handleBookingClick(cell.id)
                /\ UNCHANGED <<layoutVars, scenarioVars, viewVars>>

CloseModal ==
    /\ modalInfo.isOpen
    /\ handleCloseModal
    /\ UNCHANGED <<layoutVars, scenarioVars, viewVars>>

SaveBooking ==
    /\ modalInfo.isOpen
    /\ modalInfo.bookingToEdit # <<>> \/ Len(bookings) < MaxBookings
    /\ \E bookingData \in BookingInputs :
          \E t \in IF modalInfo.bookingToEdit # <<>> THEN {0} ELSE ClockReadings :
              handleSaveBooking(bookingData, t, TRUE)
    /\ UNCHANGED <<layoutVars, scenarioVars, viewVars>>

DeleteBooking ==
    /\ modalInfo.isOpen
    /\ handleDeleteBooking(TRUE)
    /\ UNCHANGED <<layoutVars, scenarioVars, viewVars>>

SelectHall ==
    /\ \E hall \in Halls : selectHall(hall)
    /\ UNCHANGED <<layoutVars, scenarioVars, viewVars>>

Next ==
    \/ CellClick
    \/ BookingClick
    \/ CloseModal
    \/ SaveBooking
    \/ DeleteBooking
    \/ SelectHall

Spec == Init /\ [][Next]_vars

-----------------------------------------------------------------------------
(* The two layouts as functions of the bookings of one hall and one day *)

\* time and endTime of the bookings handed to the layouts: '', the off-grid
\* '08:30', the labels '09:00', '10:00', '11:00' and the last label '18:00'
LayoutTimes == {EmptyTime, 510, 540, 600, 660, 1080}

LayoutBooking(k, time, endTime) ==
    Booking(k, AlWaha, 1, time, endTime,
            IF k % 2 = 1 THEN "HR" ELSE "IT",
            IF k % 2 = 1 THEN "" ELSE "agenda")

RECURSIVE LayoutInputsOfLen(_)
LayoutInputsOfLen(n) ==
    IF n = 0 THEN { <<>> }
    ELSE { Append(day, LayoutBooking(n, t, e)) :
             day \in LayoutInputsOfLen(n - 1), t \in LayoutTimes, e \in LayoutTimes }

LayoutInputs == UNION { LayoutInputsOfLen(n) : n \in 0..MaxDayBookings }

InitLayout ==
    /\ bookings = <<>>
    /\ storage = <<>>
    /\ wrote = "none"
    /\ selectedHall = AlWaha
    /\ modalInfo = ClosedModal
    /\ hasUnsavedChanges = FALSE
    /\ thrown = "none"
    /\ last = NoCall("other")
    /\ dayBookings \in LayoutInputs
    /\ cells = <<>>
    /\ row = <<>>
    /\ merges = <<>>
    /\ done = {}
    /\ step = 0
    /\ currentView = "calendar"
    /\ ViewIdle

\* ScheduleTable renders the row of the day
RenderRow ==
    /\ "screen" \notin done
    /\ cells' = ScheduleRow(dayBookings)
    /\ done' = done \cup {"screen"}
    /\ UNCHANGED <<dayBookings, row, merges>>
    /\ UNCHANGED <<appVars, scenarioVars, viewVars>>

\* handleExportToExcel builds the row of the day
ExportDay ==
    /\ "export" \notin done
    /\ row' = ExportRow(dayBookings, FirstRowIndex).row
    /\ merges' = ExportRow(dayBookings, FirstRowIndex).merges
    /\ done' = done \cup {"export"}
    /\ UNCHANGED <<dayBookings, cells>>
    /\ UNCHANGED <<appVars, scenarioVars, viewVars>>

NextLayout ==
    \/ RenderRow
    \/ ExportDay

SpecLayout == InitLayout /\ [][NextLayout]_vars

-----------------------------------------------------------------------------
(* The session: startup and reload, the modal's submit, writes that fail *)

\* days on which the page is loaded
SessionStartDays == {1, 2}

\* what the modal is asked to submit in the session: 10:00-11:00 and the
\* zero-length 10:00-10:00, on day 1
SessionRanges == {<<600, 660>>, <<600, 600>>}

SessionInputs ==
    { BookingData(1, r[1], r[2], InputDetails[1][1], InputDetails[1][2]) :
        r \in SessionRanges }

\* App is mounted: the useState initialisers run, then the effect on [bookings]
mount(today, writeOk) ==
    /\ bookings' = loadBookings(storage, today)
    /\ storage' = persistBookings(loadBookings(storage, today), storage, writeOk)
    /\ wrote' = setItemOutcome(writeOk)
    /\ selectedHall' = AlWaha
    /\ currentView' = "calendar"
    /\ modalInfo' = ClosedModal
    /\ hasUnsavedChanges' = FALSE
    /\ thrown' = "none"
    /\ last' = NoCall("start")

\* BookingModal is not among the sources; the specification has the caller of
\* the save reject a candidate whose endTime is not later than its time
validRange(bookingData) == bookingData.time < bookingData.endTime

\* the modal's submit: onSave is called only with a valid range
submitModal(bookingData, t, writeOk) ==
    IF validRange(bookingData)
    THEN handleSaveBooking(bookingData, t, writeOk)
    ELSE /\ thrown' = "invalid"
         /\ last' = Call("save", modalInfo.bookingToEdit # <<>>,
                         keepsRange(modalInfo, bookingData))
         /\ UNCHANGED <<bookings, selectedHall, modalInfo, hasUnsavedChanges,
                        storage, wrote, currentView>>

\* the page is loaded
Mounted == last.op # "stopped"

InitSession ==
    /\ bookings = <<>>
    /\ storage \in InitialStorage
    /\ wrote = "none"
    /\ selectedHall = AlWaha
    /\ modalInfo = ClosedModal
    /\ hasUnsavedChanges = FALSE
    /\ thrown = "none"
    /\ last = NoCall("stopped")
    /\ LayoutIdle
    /\ step = 0
    /\ currentView = "calendar"
    /\ ViewIdle

\* the page is loaded or reloaded
Mount ==
    /\ \E today \in SessionStartDays, writeOk \in BOOLEAN : mount(today, writeOk)
    /\ UNCHANGED <<layoutVars, scenarioVars, viewVars>>

SessionCellClick == Mounted /\ CellClick

SessionBookingClick == Mounted /\ BookingClick

SubmitModal ==
    /\ Mounted
    /\ modalInfo.isOpen
    /\ modalInfo.bookingToEdit # <<>> \/ Len(bookings) < MaxBookings
    /\ \E bookingData \in SessionInputs, writeOk \in BOOLEAN :
          \E t \in IF modalInfo.bookingToEdit # <<>> THEN {0} ELSE ClockReadings :
              submitModal(bookingData, t, writeOk)
    /\ UNCHANGED <<layoutVars, scenarioVars, viewVars>>

SessionDelete ==
    /\ Mounted
    /\ modalInfo.isOpen
    /\ \E writeOk \in BOOLEAN : handleDeleteBooking(writeOk)
    /\ UNCHANGED <<layoutVars, scenarioVars, viewVars>>

SessionSelectHall == Mounted /\ SelectHall

NextSession ==
    \/ Mount
    \/ SessionSelectHall
    \/ SessionCellClick
    \/ SessionBookingClick
    \/ SubmitModal
    \/ SessionDelete

SpecSession == InitSession /\ [][NextSession]_vars

-----------------------------------------------------------------------------
(* The board as its user drives it: every save is submitted by the modal *)

\* the modal's save button, the writes succeeding
BoardSubmit ==
    /\ modalInfo.isOpen
    /\ modalInfo.bookingToEdit # <<>> \/ Len(bookings) < MaxBookings
    /\ \E bookingData \in BookingInputs :
          \E t \in IF modalInfo.bookingToEdit # <<>> THEN {0} ELSE ClockReadings :
              submitModal(bookingData, t, TRUE)
    /\ UNCHANGED <<layoutVars, scenarioVars, viewVars>>

NextBoard ==
    \/ CellClick
    \/ BookingClick
    \/ CloseModal
    \/ BoardSubmit
    \/ DeleteBooking
    \/ SelectHall

SpecBoard == Init /\ [][NextBoard]_vars

-----------------------------------------------------------------------------
(* The rendered table: every change of the App state renders again *)

\* the slot time of the empty cells the model clicks: the last column, '17:00'
RenderClickTimes == {1020}

\* what the user types over the modal's initial data
TypedDepartment == "HR"

\* App renders after a state change.  In the calendar view the ScheduleTable
\* is rendered and calls getBookingColor for the bookings it finds; in the
\* dashboard view it is not rendered, so it is unmounted and its refs are
\* dropped: the next mount starts from new refs
renderApp ==
    IF currentView' = "calendar"
    THEN LET ids == tableColorCalls(bookings', selectedHall', daysInMonth(currentDate'))
             refs == applyColorCalls([map |-> bookingColorMap, last |-> lastColorIndex], ids)
         IN  /\ bookingColorMap' = refs.map
             /\ lastColorIndex' = refs.last
             /\ painted' = [id \in DOMAIN painted \cup Range(ids) |->
                               IF id \in Range(ids)
                               THEN bookingColors[refs.map[id] + 1]
                               ELSE painted[id]]
    ELSE /\ bookingColorMap' = NewRefs.map
         /\ lastColorIndex' = NewRefs.last
         /\ UNCHANGED painted

\* the page was loaded over a stored empty booking set and rendered for the
\* first time
InitRender ==
    /\ \E today \in StartDays :
          /\ bookings = loadBookings(<<JSONstringify(<<>>)>>, today)
          /\ storage = persistBookings(bookings, <<JSONstringify(<<>>)>>, TRUE)
    /\ wrote = setItemOutcome(TRUE)
    /\ selectedHall = AlWaha
    /\ modalInfo = ClosedModal
    /\ hasUnsavedChanges = FALSE
    /\ thrown = "none"
    /\ last = NoCall("other")
    /\ LayoutIdle
    /\ step = 0
    /\ currentView = "calendar"
    /\ currentDate = 1
    /\ saveStatus = "idle"
    /\ timers = 0
    /\ LET ids == tableColorCalls(bookings, selectedHall, daysInMonth(currentDate))
           refs == applyColorCalls(NewRefs, ids)
       IN  /\ bookingColorMap = refs.map
           /\ lastColorIndex = refs.last
           /\ painted = [id \in Range(ids) |-> bookingColors[refs.map[id] + 1]]

\* a hall button
RenderSelectHall ==
    /\ \E hall \in Halls : selectHall(hall)
    /\ UNCHANGED <<currentDate, saveStatus, timers>>
    /\ renderApp
    /\ UNCHANGED <<layoutVars, scenarioVars>>

\* the dashboard button: setCurrentView('dashboard')
ShowDashboard ==
    /\ currentView' = "dashboard"
    /\ thrown' = "none"
    /\ last' = NoCall("other")
    /\ UNCHANGED <<bookings, selectedHall, modalInfo, hasUnsavedChanges, storage, wrote>>
    /\ UNCHANGED <<currentDate, saveStatus, timers>>
    /\ renderApp
    /\ UNCHANGED <<layoutVars, scenarioVars>>

\* handleMonthChange: the month select of the calendar view
ChangeMonth ==
    /\ currentView = "calendar"
    /\ \E month \in Months : currentDate' = month
    /\ thrown' = "none"
    /\ last' = NoCall("other")
    /\ UNCHANGED <<bookings, selectedHall, modalInfo, hasUnsavedChanges, storage, wrote,
                   currentView>>
    /\ UNCHANGED <<saveStatus, timers>>
    /\ renderApp
    /\ UNCHANGED <<layoutVars, scenarioVars>>

\* an empty cell of the rendered table is clicked
RenderCellClick ==
    /\ currentView = "calendar"
    /\ \E day \in Range(daysInMonth(currentDate)) :
          \E cell \in Range(ScreenRow(bookings, selectedHall, day)) :
              /\ cell.kind = "empty"
              /\ cell.time \in RenderClickTimes
              /\ handleCellClick(day, cell.time)
    /\ UNCHANGED <<currentDate, saveStatus, timers>>
    /\ renderApp
    /\ UNCHANGED <<layoutVars, scenarioVars>>

\* an occupied cell of the rendered table is clicked
RenderBookingClick ==
    /\ currentView = "calendar"
    /\ \E day \in Range(daysInMonth(currentDate)) :
          \E cell \in Range(ScreenRow(bookings, selectedHall, day)) :
              /\ cell.kind = "occupied"
              /\ handleBookingClick(cell.id)
    /\ UNCHANGED <<currentDate, saveStatus, timers>>
    /\ renderApp
    /\ UNCHANGED <<layoutVars, scenarioVars>>

\* the save button of a modal opened on an empty cell, over the initial data
\* with a department typed in
RenderSubmit ==
    /\ modalInfo.isOpen
    /\ modalInfo.bookingToEdit = <<>>
    /\ Len(bookings) < MaxBookings
    /\ getModalInitialData(modalInfo) # <<>>
    /\ \E t \in ClockReadings :
          submitModal([getModalInitialData(modalInfo)[1] EXCEPT
                          !.department = TypedDepartment], t, TRUE)
    /\ UNCHANGED <<currentDate, saveStatus, timers>>
    /\ renderApp
    /\ UNCHANGED <<layoutVars, scenarioVars>>

\* the modal's delete button
RenderDelete ==
    /\ modalInfo.isOpen
    /\ handleDeleteBooking(TRUE)
    /\ UNCHANGED <<currentDate, saveStatus, timers>>
    /\ renderApp
    /\ UNCHANGED <<layoutVars, scenarioVars>>

\* the modal's close button
RenderCloseModal ==
    /\ modalInfo.isOpen
    /\ handleCloseModal
    /\ UNCHANGED <<currentDate, saveStatus, timers>>
    /\ renderApp
    /\ UNCHANGED <<layoutVars, scenarioVars>>

NextRender ==
    \/ RenderSelectHall
    \/ ShowDashboard
    \/ ChangeMonth
    \/ RenderCellClick
    \/ RenderBookingClick
    \/ RenderSubmit
    \/ RenderDelete
    \/ RenderCloseModal

SpecRender == InitRender /\ [][NextRender]_vars

-----------------------------------------------------------------------------
(* The calendar view: clicks on empty cells, the modal's initial data, the
   save confirmation and its reset timers *)

\* the slot times of the empty cells the model clicks: the first column
\* '07:30' and the last column '17:00'
CalendarClickTimes == {450, 1020}

\* an empty cell of a displayed row is clicked
CalendarCellClick ==
    /\ \E day \in ClickDates :
          \E cell \in Range(ScreenRow(bookings, selectedHall, day)) :
              /\ cell.kind = "empty"
              /\ cell.time \in CalendarClickTimes
              /\ handleCellClick(day, cell.time)
    /\ UNCHANGED <<layoutVars, scenarioVars, viewVars>>

\* the modal's save button, over the initial data with a department typed in
CalendarSubmit ==
    /\ modalInfo.isOpen
    /\ modalInfo.bookingToEdit # <<>> \/ Len(bookings) < MaxBookings
    /\ getModalInitialData(modalInfo) # <<>>
    /\ \E t \in IF modalInfo.bookingToEdit # <<>> THEN {0} ELSE ClockReadings :
          submitModal([getModalInitialData(modalInfo)[1] EXCEPT
                          !.department = TypedDepartment], t, TRUE)
    /\ UNCHANGED <<layoutVars, scenarioVars, viewVars>>

\* the save button of the calendar view, enabled while there are unsaved
\* changes and saveStatus is not 'saving'
SaveChanges ==
    /\ currentView = "calendar"
    /\ hasUnsavedChanges
    /\ saveStatus # "saving"
    /\ timers < MaxPendingTimers
    /\ handleSaveChanges
    /\ UNCHANGED <<currentDate, bookingColorMap, lastColorIndex, painted>>
    /\ UNCHANGED <<layoutVars, scenarioVars>>

\* two seconds after a confirmation its timer fires; the timers fire in the
\* order they were set
TimerFires ==
    /\ timers > 0
    /\ resetSaveStatus
    /\ UNCHANGED <<currentDate, bookingColorMap, lastColorIndex, painted>>
    /\ UNCHANGED <<layoutVars, scenarioVars>>

NextCalendar ==
    \/ CalendarCellClick
    \/ BookingClick
    \/ CloseModal
    \/ CalendarSubmit
    \/ DeleteBooking
    \/ SaveChanges
    \/ TimerFires

SpecCalendar == Init /\ [][NextCalendar]_vars

-----------------------------------------------------------------------------
(* The end-to-end scenario: create A, try B, create C, delete A *)

\* dates on which the scenario is played
ScenarioDates == {1, 2, 3, 4}

\* A is 09:00-11:00, B is 10:00-12:00, C is 11:00-12:00
ScenarioA(date) == BookingData(date, 540, 660, "HR", "")
ScenarioB(date) == BookingData(date, 600, 720, "IT", "")
ScenarioC(date) == BookingData(date, 660, 720, "IT", "agenda")

\* the page was loaded over a stored empty booking set
InitScenario ==
    /\ \E today \in StartDays :
          /\ bookings = loadBookings(<<JSONstringify(<<>>)>>, today)
          /\ storage = persistBookings(bookings, <<JSONstringify(<<>>)>>, TRUE)
    /\ wrote = setItemOutcome(TRUE)
    /\ selectedHall = AlWaha
    /\ modalInfo = ClosedModal
    /\ hasUnsavedChanges = FALSE
    /\ thrown = "none"
    /\ last = NoCall("other")
    /\ LayoutIdle
    /\ step = 0
    /\ currentView = "calendar"
    /\ ViewIdle

\* the hall of the scenario is selected
ScenarioSelectHall ==
    /\ step = 0
    /\ \E hall \in Halls : selectHall(hall)
    /\ step' = 1
    /\ UNCHANGED <<layoutVars, viewVars>>

\* the empty 09:00 cell of the scenario's date is clicked
ScenarioOpenForA ==
    /\ step = 1
    /\ \E date \in ScenarioDates :
          /\ \E cell \in Range(ScreenRow(bookings, selectedHall, date)) :
                cell.kind = "empty" /\ cell.time = 540
          /\ handleCellClick(date, 540)
    /\ step' = 2
    /\ UNCHANGED <<layoutVars, viewVars>>

\* A is submitted
ScenarioCreateA ==
    /\ step = 2
    /\ \E t \in ClockReadings :
          handleSaveBooking(ScenarioA(modalInfo.date[1]), t, TRUE)
    /\ step' = 3
    /\ UNCHANGED <<layoutVars, viewVars>>

\* the empty 11:00 cell of A's date is clicked
ScenarioOpenForB ==
    /\ step = 3
    /\ bookings # <<>>
    /\ \E cell \in Range(ScreenRow(bookings, selectedHall, bookings[1].date)) :
          cell.kind = "empty" /\ cell.time = 660
    /\ handleCellClick(bookings[1].date, 660)
    /\ step' = 4
    /\ UNCHANGED <<layoutVars, viewVars>>

\* B is submitted from the open modal
ScenarioCreateB ==
    /\ step = 4
    /\ \E t \in ClockReadings :
          handleSaveBooking(ScenarioB(modalInfo.date[1]), t, TRUE)
    /\ step' = 5
    /\ UNCHANGED <<layoutVars, viewVars>>

\* C is submitted from the modal the refused save left open
ScenarioCreateC ==
    /\ step = 5
    /\ modalInfo.isOpen
    /\ \E t \in ClockReadings :
          handleSaveBooking(ScenarioC(modalInfo.date[1]), t, TRUE)
    /\ step' = 6
    /\ UNCHANGED <<layoutVars, viewVars>>

\* the cell of A is clicked
ScenarioOpenA ==
    /\ step = 6
    /\ bookings # <<>>
    /\ \E cell \in Range(ScreenRow(bookings, selectedHall, bookings[1].date)) :
          /\ cell.kind = "occupied"
          /\ cell.time = 540
          /\ handleBookingClick(cell.id)
    /\ step' = 7
    /\ UNCHANGED <<layoutVars, viewVars>>

\* the modal's delete button
ScenarioDeleteA ==
    /\ step = 7
    /\ modalInfo.isOpen
    /\ handleDeleteBooking(TRUE)
    /\ step' = 8
    /\ UNCHANGED <<layoutVars, viewVars>>

NextScenario ==
    \/ ScenarioSelectHall
    \/ ScenarioOpenForA
    \/ ScenarioCreateA
    \/ ScenarioOpenForB
    \/ ScenarioCreateB
    \/ ScenarioCreateC
    \/ ScenarioOpenA
    \/ ScenarioDeleteA

SpecScenario == InitScenario /\ [][NextScenario]_vars

-----------------------------------------------------------------------------
(* Properties of the write path, checked under Spec *)

\* the overlap rule of the specification: a.time < b.endTime AND a.endTime > b.time
Overlap(a, b) == a.time < b.endTime /\ a.endTime > b.time

IsInterval(a) == a.time < a.endTime

\* the hall a candidate submitted in the current modal is booked in
CandidateHall ==
    IF modalInfo.bookingToEdit # <<>> THEN modalInfo.bookingToEdit[1].hallId
    ELSE selectedHall

\* some booking other than the edited one, in the candidate's hall and on its
\* date, overlaps the candidate
ConflictExists(data) ==
    \E k \in DOMAIN bookings :
        /\ modalInfo.bookingToEdit # <<>> => bookings[k].id # modalInfo.bookingToEdit[1].id
        /\ bookings[k].hallId = CandidateHall
        /\ bookings[k].date = data.date
        /\ Overlap(data, bookings[k])

SomePairSameHallAndDate ==
    \E i \in DOMAIN bookings, j \in DOMAIN bookings :
        /\ i # j
        /\ bookings[i].hallId = bookings[j].hallId
        /\ bookings[i].date = bookings[j].date

\* C1: in every reachable state, from the empty or the seed set and after any
\* creates, edits, deletes and refused saves, no two distinct bookings of the
\* same hall and date overlap.
C1_NoOverlap ==
    \A i \in DOMAIN bookings, j \in DOMAIN bookings :
        ( /\ bookings[i] # bookings[j]
          /\ bookings[i].hallId = bookings[j].hallId
          /\ bookings[i].date = bookings[j].date )
        => ~Overlap(bookings[i], bookings[j])

\* a save was just refused while two bookings share a hall and a date
C1_Witness ==
    /\ last.op = "save"
    /\ thrown = "conflict"
    /\ SomePairSameHallAndDate

\* C2: a save (create or edit) whose candidate conflicts with an existing
\* booking raises the conflict error and leaves the booking set, the storage,
\* the modal (open, same bookingToEdit) and hasUnsavedChanges as they were.
C2_RefusedSaveChangesNothing ==
    modalInfo.isOpen =>
        \A data \in BookingInputs, t \in ClockReadings, writeOk \in BOOLEAN :
            ConflictExists(data) =>
                /\ saveBooking(bookings, selectedHall, modalInfo, hasUnsavedChanges,
                               storage, data, t, writeOk)
                   = AppState(bookings, modalInfo, hasUnsavedChanges, storage, "conflict")
                /\ modalInfo.isOpen

\* an edit was just refused: the modal is still open on the booking
C2_Witness ==
    /\ last.op = "save"
    /\ last.edit
    /\ thrown = "conflict"
    /\ modalInfo.isOpen
    /\ modalInfo.bookingToEdit # <<>>

\* C3: the conflict check is true exactly when some booking other than the
\* edited one has the candidate's hall and date and overlaps it; with no
\* booking being edited every booking is compared.
C3_ConflictCheckIff ==
    modalInfo.isOpen =>
        \A data \in BookingInputs :
            hasConflict(bookings, modalInfo, selectedHall, data) <=> ConflictExists(data)

\* a save was just refused while bookings of the two halls overlap in time on
\* one date
C3_Witness ==
    /\ last.op = "save"
    /\ thrown = "conflict"
    /\ \E i \in DOMAIN bookings, j \in DOMAIN bookings :
          /\ bookings[i].hallId # bookings[j].hallId
          /\ bookings[i].date = bookings[j].date
          /\ Overlap(bookings[i], bookings[j])

\* C4: a candidate that touches an existing booking of its hall and date
\* (starts at its endTime or ends at its time), both being proper intervals,
\* is not in conflict with that booking.
C4_AdjacencyAllowed ==
    modalInfo.isOpen =>
        \A k \in DOMAIN bookings, data \in BookingInputs :
            ( /\ IsInterval(bookings[k])
              /\ IsInterval(data)
              /\ bookings[k].hallId = CandidateHall
              /\ bookings[k].date = data.date
              /\ data.time = bookings[k].endTime \/ data.endTime = bookings[k].time )
            => ~conflictsWith(bookings[k], modalInfo, currentHallOf(modalInfo, selectedHall), data)

\* a save was just committed and two touching intervals share a hall and date
C4_Witness ==
    /\ last.op = "save"
    /\ thrown = "none"
    /\ \E i \in DOMAIN bookings, j \in DOMAIN bookings :
          /\ bookings[i].hallId = bookings[j].hallId
          /\ bookings[i].date = bookings[j].date
          /\ IsInterval(bookings[i])
          /\ IsInterval(bookings[j])
          /\ bookings[i].endTime = bookings[j].time

\* C5: saving an edit of a booking X with X's own date and time range is never
\* refused and is committed: X carries the submitted department and notes
\* wherever it was, and the stored set is the new set.
C5_SelfExclusion ==
    (modalInfo.isOpen /\ modalInfo.bookingToEdit # <<>>) =>
        \A d \in InputDates, t \in ClockReadings :
            /\ ~hasConflict(bookings, modalInfo, selectedHall,
                            BookingData(modalInfo.bookingToEdit[1].date,
                                        modalInfo.bookingToEdit[1].time,
                                        modalInfo.bookingToEdit[1].endTime,
                                        InputDetails[d][1], InputDetails[d][2]))
            /\ saveBooking(bookings, selectedHall, modalInfo, hasUnsavedChanges, storage,
                           BookingData(modalInfo.bookingToEdit[1].date,
                                       modalInfo.bookingToEdit[1].time,
                                       modalInfo.bookingToEdit[1].endTime,
                                       InputDetails[d][1], InputDetails[d][2]),
                           t, TRUE)
               = AppState([k \in DOMAIN bookings |->
                              IF bookings[k].id = modalInfo.bookingToEdit[1].id
                              THEN [modalInfo.bookingToEdit[1] EXCEPT
                                       !.department = InputDetails[d][1],
                                       !.notes = InputDetails[d][2]]
                              ELSE bookings[k]],
                          ClosedModal, TRUE,
                          <<JSONstringify([k \in DOMAIN bookings |->
                              IF bookings[k].id = modalInfo.bookingToEdit[1].id
                              THEN [modalInfo.bookingToEdit[1] EXCEPT
                                       !.department = InputDetails[d][1],
                                       !.notes = InputDetails[d][2]]
                              ELSE bookings[k]])>>,
                          "none")

\* an edit that kept the date and time range was just committed while another
\* booking shares a hall and date
C5_Witness ==
    /\ last.op = "save"
    /\ last.edit
    /\ last.sameRange
    /\ thrown = "none"
    /\ ~modalInfo.isOpen
    /\ SomePairSameHallAndDate

-----------------------------------------------------------------------------
(* Properties of the layouts, checked under SpecLayout *)

\* number of slot columns: the grid without its last label
N == Len(displayTimeSlots)

StartIndex(b) == indexOf(timeSlots, b.time)
EndIndex(b) == indexOf(timeSlots, b.endTime)

\* the booking starts at a slot column
StartsOnGrid(b) == StartIndex(b) >= 0 /\ StartIndex(b) < N

\* the booking starts at a slot column and ends at a later label of the grid
WellFormed(b) == StartsOnGrid(b) /\ EndIndex(b) > StartIndex(b)

\* the booking starts at a slot column; its endTime is not a label of the
\* grid, or is a label at or before its time
Malformed(b) == StartsOnGrid(b) /\ ~(EndIndex(b) > StartIndex(b))

ValidDay == \A k \in DOMAIN dayBookings : WellFormed(dayBookings[k])

DisjointDay ==
    \A i \in DOMAIN dayBookings, j \in DOMAIN dayBookings :
        i # j => ~Overlap(dayBookings[i], dayBookings[j])

\* a cell as both layouts can tell it: what it is, where it starts, how many
\* columns it takes and the department it shows
Shape(kind, col, span, department) ==
    [kind |-> kind, col |-> col, span |-> span, department |-> department]

ScreenCells == [k \in DOMAIN cells |->
                   Shape(cells[k].kind, cells[k].col, cells[k].span, cells[k].department)]

\* the slot entries of the exported row, between the three leading entries and
\* the notes
SlotEntries == SubSeq(row, 4, Len(row) - 1)

\* columns of the merge region that starts at sheet column c, 1 if there is none
MergedColumns(c) ==
    IF \E k \in DOMAIN merges : merges[k].s.c = c
    THEN LET k == CHOOSE k \in DOMAIN merges : merges[k].s.c = c
         IN  merges[k].e.c - merges[k].s.c + 1
    ELSE 1

\* the cells of the exported row: every entry that is not null opens one
RECURSIVE exportCellsFrom(_)
exportCellsFrom(p) ==
    IF p > Len(SlotEntries) THEN <<>>
    ELSE IF SlotEntries[p].kind = "null" THEN exportCellsFrom(p + 1)
    ELSE << Shape(IF SlotEntries[p].kind = "department" THEN "occupied" ELSE "empty",
                  p - 1, MergedColumns(3 + p - 1), SlotEntries[p].text) >>
         \o exportCellsFrom(p + 1)

ExportCells == exportCellsFrom(1)

RECURSIVE SumSpans(_)
SumSpans(cs) == IF cs = <<>> THEN 0 ELSE Head(cs).span + SumSpans(Tail(cs))

Covering(cs, idx) ==
    { k \in DOMAIN cs : cs[k].col <= idx /\ idx < cs[k].col + cs[k].span }

\* the spans sum to N, every slot index lies in exactly one cell, and no empty
\* cell lies inside the span of an occupied cell
Covers(cs) ==
    /\ SumSpans(cs) = N
    /\ \A idx \in 0..(N - 1) : Cardinality(Covering(cs, idx)) = 1
    /\ \A e \in DOMAIN cs, o \in DOMAIN cs :
          (cs[e].kind = "empty" /\ cs[o].kind = "occupied")
          => ~(cs[o].col <= cs[e].col /\ cs[e].col < cs[o].col + cs[o].span)

\* C6: for well-formed, pairwise non-overlapping bookings of one hall and day,
\* each layout emits cells whose spans sum to N and cover every slot index
\* exactly once, with no empty cell inside an occupied span; the exported row
\* has one entry per slot index.
C6_LayoutCoverage ==
    (ValidDay /\ DisjointDay) =>
        /\ "screen" \in done => Covers(ScreenCells)
        /\ "export" \in done => (Covers(ExportCells) /\ Len(SlotEntries) = N)

\* both layouts were applied to two well-formed disjoint bookings, one of which
\* takes more than one column
C6_Witness ==
    /\ done = {"screen", "export"}
    /\ Len(dayBookings) >= 2
    /\ ValidDay
    /\ DisjointDay
    /\ \E k \in DOMAIN cells : cells[k].kind = "occupied" /\ cells[k].span > 1
    /\ merges # <<>>

\* the cell sequence cs has, at column s, exactly one cell: an occupied one of
\* the given span showing the department, and the next cell starts at s + span
SpanAt(cs, s, span, department) ==
    /\ \E c \in DOMAIN cs :
          /\ cs[c] = Shape("occupied", s, span, department)
          /\ c < Len(cs) => cs[c + 1].col = s + span
          /\ c = Len(cs) => s + span = N
    /\ Cardinality({ c \in DOMAIN cs : cs[c].col = s }) = 1

\* the layouts give booking b the span from its time to its endTime
SpannedRight(b) ==
    /\ "screen" \in done =>
          /\ SpanAt(ScreenCells, StartIndex(b), EndIndex(b) - StartIndex(b), b.department)
          /\ \E c \in DOMAIN cells : cells[c].col = StartIndex(b) /\ cells[c].id = b.id
    /\ "export" \in done =>
          /\ SpanAt(ExportCells, StartIndex(b), EndIndex(b) - StartIndex(b), b.department)
          /\ \A q \in (StartIndex(b) + 1)..(EndIndex(b) - 1) : SlotEntries[q + 1].kind = "null"

\* no booking listed before the k-th has its time, and its time is not inside
\* the time range of another booking of the day
Reached(k) ==
    /\ \A j \in DOMAIN dayBookings : j < k => dayBookings[j].time # dayBookings[k].time
    /\ \A j \in DOMAIN dayBookings :
          j # k => ~(dayBookings[j].time < dayBookings[k].time
                     /\ dayBookings[k].time < dayBookings[j].endTime)

\* C7, as stated: every booking from grid label s (not the last) to a later
\* grid label e gets, at column s, one occupied cell of span e - s, and the
\* next cell starts at column e.
C7_Original ==
    \A k \in DOMAIN dayBookings :
        WellFormed(dayBookings[k]) => SpannedRight(dayBookings[k])

\* C7, amended: the same, for a booking that is the first of the day with its
\* time and whose time is not inside the time range of another booking.
C7_SpanCorrect ==
    \A k \in DOMAIN dayBookings :
        (WellFormed(dayBookings[k]) /\ Reached(k)) => SpannedRight(dayBookings[k])

\* both layouts were applied to a day with another booking and a reached
\* booking of two slots or more
C7_Witness ==
    /\ done = {"screen", "export"}
    /\ Len(dayBookings) >= 2
    /\ \E k \in DOMAIN dayBookings :
          /\ WellFormed(dayBookings[k])
          /\ Reached(k)
          /\ EndIndex(dayBookings[k]) - StartIndex(dayBookings[k]) >= 2

\* C8, as stated, for a booking the scan reaches: on screen a booking with a
\* malformed endTime is one occupied cell of span 1 at its start column,
\* clickable to edit it.
C8_ScreenDegrades ==
    "screen" \in done =>
        \A k \in DOMAIN dayBookings :
            (Malformed(dayBookings[k]) /\ Reached(k)) =>
                \E c \in DOMAIN cells :
                    /\ cells[c].col = StartIndex(dayBookings[k])
                    /\ cells[c].kind = "occupied"
                    /\ cells[c].span = 1
                    /\ cells[c].id = dayBookings[k].id

\* the exported row is whole and gives booking b one column of its own: its
\* department at its start column, no merge region there, no null after it
OneColumn(b) ==
    /\ Len(row) = 3 + N + 1
    /\ SlotEntries[StartIndex(b) + 1] = Entry("department", b.department)
    /\ \A m \in DOMAIN merges :
          ~(merges[m].s.c <= 3 + StartIndex(b) /\ 3 + StartIndex(b) <= merges[m].e.c)
    /\ StartIndex(b) + 2 <= Len(SlotEntries) => SlotEntries[StartIndex(b) + 2].kind # "null"

\* C9, as stated: in the export every booking with a malformed endTime is one
\* occupied column with its department, span 1 and no merge region.
C9_Original ==
    "export" \in done =>
        \A k \in DOMAIN dayBookings :
            Malformed(dayBookings[k]) => OneColumn(dayBookings[k])

\* C9, amended: the same, for a booking that is the first of the day with its
\* time and whose time is not inside the time range of another booking.
C9_ExportDegrades ==
    "export" \in done =>
        \A k \in DOMAIN dayBookings :
            (Malformed(dayBookings[k]) /\ Reached(k)) => OneColumn(dayBookings[k])

\* the export was applied to a day with a reached malformed booking and
\* another booking
C9_Witness ==
    /\ "export" \in done
    /\ Len(dayBookings) >= 2
    /\ \E k \in DOMAIN dayBookings : Malformed(dayBookings[k]) /\ Reached(k)

\* C10: for the same bookings the on-screen row and the exported row have the
\* same cells: the same columns empty, the same columns occupied, with the same
\* department and span.
C10_SameCells ==
    done = {"screen", "export"} => ScreenCells = ExportCells

\* the occupied cells of the on-screen row that show booking b
CellsOf(b) ==
    { c \in DOMAIN cells : cells[c].kind = "occupied" /\ cells[c].id = b.id }

\* C11: for well-formed, pairwise non-overlapping bookings of one hall and day
\* the on-screen row has exactly one occupied cell per booking, at the column
\* of the booking's time, and no other occupied cell; the exported row has as
\* many department entries as there are bookings, each at its booking's column.
C11_NoneDroppedNoneDuplicated ==
    (ValidDay /\ DisjointDay) =>
        /\ "screen" \in done =>
              /\ \A k \in DOMAIN dayBookings :
                    /\ Cardinality(CellsOf(dayBookings[k])) = 1
                    /\ \A c \in CellsOf(dayBookings[k]) :
                          cells[c].col = StartIndex(dayBookings[k])
              /\ Cardinality({ c \in DOMAIN cells : cells[c].kind = "occupied" })
                   = Len(dayBookings)
        /\ "export" \in done =>
              /\ \A k \in DOMAIN dayBookings :
                    SlotEntries[StartIndex(dayBookings[k]) + 1]
                      = Entry("department", dayBookings[k].department)
              /\ Cardinality({ p \in DOMAIN SlotEntries : SlotEntries[p].kind = "department" })
                   = Len(dayBookings)

\* both layouts were applied to two well-formed disjoint bookings, the second
\* listed one starting first and one of them spanning several slots
C11_Witness ==
    /\ done = {"screen", "export"}
    /\ Len(dayBookings) = 2
    /\ ValidDay
    /\ DisjointDay
    /\ dayBookings[2].time < dayBookings[1].time
    /\ \E k \in DOMAIN dayBookings : EndIndex(dayBookings[k]) - StartIndex(dayBookings[k]) > 1

\* the last label of the slot grid
Sentinel == timeSlots[Len(timeSlots)]

\* C12: no cell of the on-screen row starts at the last label of the grid, so
\* no empty cell hands that label to onCellClick; the exported row has one
\* entry for each label but the last; a booking that ends at the last label
\* and is reached by the scan extends through the last column.
C12_SentinelSlot ==
    /\ "screen" \in done =>
          /\ \A c \in DOMAIN cells :
                /\ cells[c].col < Len(timeSlots) - 1
                /\ timeSlots[cells[c].col + 1] # Sentinel
                /\ cells[c].kind = "empty" => cells[c].time # Sentinel
          /\ \A k \in DOMAIN dayBookings :
                (WellFormed(dayBookings[k]) /\ Reached(k) /\ dayBookings[k].endTime = Sentinel)
                => \E c \in CellsOf(dayBookings[k]) :
                      cells[c].col + cells[c].span = Len(timeSlots) - 1
    /\ "export" \in done =>
          /\ Len(SlotEntries) = Len(timeSlots) - 1
          /\ \A k \in DOMAIN dayBookings :
                (WellFormed(dayBookings[k]) /\ Reached(k) /\ dayBookings[k].endTime = Sentinel)
                => \A q \in (StartIndex(dayBookings[k]) + 2)..Len(SlotEntries) :
                      SlotEntries[q].kind = "null"

\* both layouts were applied to a day with a booking that ends at the last
\* label and a booking that starts at it
C12_Witness ==
    /\ done = {"screen", "export"}
    /\ \E k \in DOMAIN dayBookings :
          WellFormed(dayBookings[k]) /\ Reached(k) /\ dayBookings[k].endTime = Sentinel
    /\ \E k \in DOMAIN dayBookings : dayBookings[k].time = Sentinel
    /\ \E c \in DOMAIN cells : cells[c].kind = "empty"

-----------------------------------------------------------------------------
(* Persistence when every write succeeds, checked under Spec *)

\* C16: when the writes succeed, after the startup and after every handler
\* call (a create, an edit or a delete included) the stored item is the text
\* of the whole in-memory booking set.
C16_StoredFollowsMemory ==
    /\ wrote = "ok"
    /\ storage = <<JSONstringify(bookings)>>
    /\ JSONparse(storage[1]) = bookings

\* an edit was committed while another booking was in the set
C16_Witness ==
    /\ last.op = "save"
    /\ last.edit
    /\ ~last.sameRange
    /\ thrown = "none"
    /\ Len(bookings) = 2
    /\ bookings[1] # bookings[2]

-----------------------------------------------------------------------------
(* Identity of the bookings, checked under Spec *)

\* C20: the bookings of the booking set have pairwise distinct ids.
C20_IdsDistinct ==
    \A i \in DOMAIN bookings, j \in DOMAIN bookings :
        i # j => bookings[i].id # bookings[j].id

-----------------------------------------------------------------------------
(* Properties of the session, checked under SpecSession *)

Unreadable(item) == item = <<>> \/ item[1].text # "json"

\* the booking set is the seed of some day
IsSeed(bks) == \E d \in SessionStartDays : bks = generateInitialBookings(d)

\* C14: a load that finds no stored value, or one that cannot be parsed, starts
\* with the seed set and raises nothing; a load that finds a stored booking set
\* starts with that set (the stored text is the text of the loaded set).
C14_LoadFallback ==
    [][ last'.op = "start" =>
          /\ thrown' = "none"
          /\ Unreadable(storage) => IsSeed(bookings')
          /\ ~Unreadable(storage) => JSONstringify(bookings') = storage[1]
      ]_vars

\* the page was loaded over a value that cannot be parsed, the seed was taken
\* and the write that followed failed
C14_Witness ==
    /\ last.op = "start"
    /\ storage # <<>>
    /\ storage[1].text = "garbage"
    /\ IsSeed(bookings)
    /\ thrown = "none"

\* the bookings without their dates
Undated(bks) ==
    [k \in 1..Len(bks) |->
        << bks[k].id, bks[k].hallId, bks[k].time, bks[k].endTime,
           bks[k].department, bks[k].notes >>]

\* C15, as stated: a load that falls back to the seed obtains the seed set that
\* a load at any other moment obtains: same ids, halls, dates, times and end
\* times.
C15_Original ==
    [][ (last'.op = "start" /\ Unreadable(storage)) =>
          \A d \in SessionStartDays : bookings' = generateInitialBookings(d)
      ]_vars

\* C15, amended: a load that falls back to the seed obtains a set that has the
\* ids, halls, times and end times (and departments and notes) of the seed of
\* any other moment; the dates follow the day of the load.
C15_SeedSameButDates ==
    [][ (last'.op = "start" /\ Unreadable(storage)) =>
          \A d \in SessionStartDays :
              Undated(bookings') = Undated(generateInitialBookings(d))
      ]_vars

\* the page was loaded on day 2 with nothing stored, and the write that
\* followed failed
C15_Witness ==
    /\ last.op = "start"
    /\ storage = <<>>
    /\ wrote = "failed"
    /\ bookings = generateInitialBookings(2)

\* the step is a save that was not turned down and whose write failed
FailedWriteSave ==
    /\ last'.op = "save"
    /\ wrote' = "failed"
    /\ thrown' \notin {"conflict", "invalid"}

\* the step is a delete of the booking being edited whose write failed
FailedWriteDelete ==
    /\ last'.op = "delete"
    /\ modalInfo.bookingToEdit # <<>>
    /\ wrote' = "failed"

\* C17: a save or a delete whose write fails keeps its change in memory, raises
\* nothing, closes the modal and leaves the stored item as it was; whenever
\* the last write succeeded, the stored item is the text of the whole
\* in-memory booking set.
C17_WriteFailureAbsorbed ==
    [][ /\ FailedWriteSave =>
              /\ thrown' = "none"
              /\ \E bookingData \in SessionInputs, t \in ClockReadings \cup {0} :
                    bookings' = savedBookings(bookings, modalInfo, selectedHall,
                                              bookingData, t)
              /\ modalInfo' = ClosedModal
              /\ storage' = storage
        /\ FailedWriteDelete =>
              /\ thrown' = "none"
              /\ bookings' = removeBooking(bookings, modalInfo.bookingToEdit[1])
              /\ modalInfo' = ClosedModal
              /\ storage' = storage
        /\ wrote' = "ok" => storage' = <<JSONstringify(bookings')>>
      ]_vars

\* a create was committed in memory while its write failed: the stored item
\* is older than the booking set
C17_Witness ==
    /\ last.op = "save"
    /\ ~last.edit
    /\ wrote = "failed"
    /\ thrown = "none"
    /\ bookings # <<>>
    /\ storage # <<JSONstringify(bookings)>>
    /\ modalInfo = ClosedModal

\* C18: when the page is reloaded after the booking set was written, the
\* loaded booking set has exactly the members the set had before the reload,
\* also when that set is empty.
C18_IdempotentReload ==
    [][ (Mounted /\ wrote = "ok" /\ last'.op = "start") =>
          /\ Len(bookings') = Len(bookings)
          /\ Range(bookings') = Range(bookings)
      ]_vars

\* the page was loaded over a stored empty booking set and the write that
\* followed failed: the set is empty, not the seed
C18_Witness ==
    /\ last.op = "start"
    /\ bookings = <<>>
    /\ wrote = "failed"
    /\ storage = <<JSONstringify(<<>>)>>

-----------------------------------------------------------------------------
(* The end-to-end scenario, checked under SpecScenario *)

\* booking b has the hall, the date and the time range of candidate data
Holds(b, hall, data) ==
    /\ b.hallId = hall
    /\ b.date = data.date
    /\ b.time = data.time
    /\ b.endTime = data.endTime

\* C19: from the empty set, creating A succeeds and gives a set of size 1;
\* creating B raises the conflict error and leaves the set at size 1; creating
\* C succeeds and gives size 2; deleting A leaves a set of size 1 that holds
\* only C.
C19_Scenario ==
    /\ step = 0 => bookings = <<>>
    /\ step = 3 =>
          /\ thrown = "none"
          /\ Len(bookings) = 1
          /\ Holds(bookings[1], selectedHall, ScenarioA(bookings[1].date))
    /\ step = 5 =>
          /\ thrown = "conflict"
          /\ Len(bookings) = 1
          /\ Holds(bookings[1], selectedHall, ScenarioA(bookings[1].date))
    /\ step = 6 =>
          /\ thrown = "none"
          /\ Len(bookings) = 2
          /\ Holds(bookings[2], selectedHall, ScenarioC(bookings[1].date))
    /\ step = 8 =>
          /\ Len(bookings) = 1
          /\ Holds(bookings[1], selectedHall, ScenarioC(bookings[1].date))

-----------------------------------------------------------------------------
(* Frame of an edit, a delete and a create *)

\* the positions of the booking set that hold the booking the modal is editing
EditedAt == { k \in DOMAIN bookings : bookings[k] = modalInfo.bookingToEdit[1] }

\* what a save of candidate data would leave, the writes succeeding
AfterSave(data, t) ==
    saveBooking(bookings, selectedHall, modalInfo, hasUnsavedChanges, storage, data, t, TRUE)

\* C21: an edit that is not refused leaves the edited booking its id and its
\* hallId, whatever hall is selected, gives it the candidate's date, time,
\* endTime, department and notes, and leaves the number of bookings and every
\* other booking as they were; the edit is refused exactly when a booking with
\* another id in the edited booking's own hall overlaps the candidate on its
\* date.
C21_EditPreservesIdentity ==
    (modalInfo.isOpen /\ modalInfo.bookingToEdit # <<>>) =>
        \A data \in BookingInputs :
            /\ hasConflict(bookings, modalInfo, selectedHall, data)
               <=> \E k \in DOMAIN bookings :
                      /\ bookings[k].id # modalInfo.bookingToEdit[1].id
                      /\ bookings[k].hallId = modalInfo.bookingToEdit[1].hallId
                      /\ bookings[k].date = data.date
                      /\ Overlap(data, bookings[k])
            /\ ~hasConflict(bookings, modalInfo, selectedHall, data) =>
                  /\ Len(AfterSave(data, 0).bookings) = Len(bookings)
                  /\ \A k \in DOMAIN bookings :
                        IF k \in EditedAt
                        THEN AfterSave(data, 0).bookings[k]
                               = Booking(bookings[k].id, bookings[k].hallId, data.date,
                                         data.time, data.endTime, data.department,
                                         data.notes)
                        ELSE AfterSave(data, 0).bookings[k] = bookings[k]

\* the ids of the bookings of a booking set
IdsOf(bks) == { bks[k].id : k \in DOMAIN bks }

\* the step is a create that was committed
CommittedCreate ==
    /\ last'.op = "save"
    /\ ~last'.edit
    /\ thrown' = "none"

\* the step is a delete called while a booking is being edited
DeleteOfEdited ==
    /\ last'.op = "delete"
    /\ modalInfo.bookingToEdit # <<>>

\* the booking set without the booking the modal is editing, the others in
\* their order
WithoutEdited ==
    LET other(b) == b # modalInfo.bookingToEdit[1]
    IN  SelectSeq(bookings, other)

\* C22: a delete called while a booking is being edited removes that booking in
\* the same step, leaves every other booking unchanged and closes the modal;
\* no later step of the session, a reload included, brings back an id that is
\* not in the set, unless the step is a create.
C22_DeletePermanent ==
    [][ /\ DeleteOfEdited =>
              /\ modalInfo.bookingToEdit[1].id \notin IdsOf(bookings')
              /\ bookings' = WithoutEdited
              /\ modalInfo' = ClosedModal
        /\ (Mounted /\ ~CommittedCreate) => IdsOf(bookings') \subseteq IdsOf(bookings)
      ]_vars

-----------------------------------------------------------------------------
(* What the user sees of the booking set, checked under SpecBoard *)

\* booking b is shown in the row of its date: an occupied cell with its id at
\* the column of its time, as wide as its time range
Shown(b) ==
    \E cell \in Range(ScreenRow(bookings, selectedHall, b.date)) :
        /\ cell.kind = "occupied"
        /\ cell.id = b.id
        /\ cell.col = StartIndex(b)
        /\ cell.span = EndIndex(b) - StartIndex(b)
        /\ cell.department = b.department

-----------------------------------------------------------------------------
(* Shape of the two layouts on any input, checked under SpecLayout *)

\* the cells follow one another from column 0 to column N: each starts where
\* the one before it ends, takes at least one column and ends at or before N
Chained(cs) ==
    /\ cs # <<>>
    /\ cs[1].col = 0
    /\ \A k \in DOMAIN cs :
          /\ cs[k].span >= 1
          /\ cs[k].col + cs[k].span <= N
          /\ k < Len(cs) => cs[k + 1].col = cs[k].col + cs[k].span
    /\ cs[Len(cs)].col + cs[Len(cs)].span = N

\* C25: for any bookings of one hall and day (overlapping ones, ones with the
\* same time, ones whose time is not a grid label and ones with a malformed
\* endTime included) each scan ends with a result, the scan index goes from 0
\* to N without passing it, and the emitted spans sum to exactly N.
C25_ScanTotal ==
    /\ "screen" \in done =>
          /\ Chained(ScreenCells)
          /\ SumSpans(ScreenCells) = N
    /\ "export" \in done =>
          /\ Chained(ExportCells)
          /\ SumSpans(ExportCells) = N
          /\ Len(SlotEntries) = N

\* both scans were applied to a day with two bookings of the same time, a
\* booking with a malformed endTime and one that takes several columns
C25_Witness ==
    /\ done = {"screen", "export"}
    /\ \E i \in DOMAIN dayBookings, j \in DOMAIN dayBookings :
          i # j /\ dayBookings[i].time = dayBookings[j].time
    /\ \E k \in DOMAIN dayBookings : Malformed(dayBookings[k])
    /\ \E c \in DOMAIN cells : cells[c].span > 1
    /\ merges # <<>>

-----------------------------------------------------------------------------
(* The overlap test in both directions, checked under Spec *)

\* the modal of a create
CreateModal == [isOpen |-> TRUE, bookingToEdit |-> <<>>, date |-> <<>>, time |-> <<>>]

\* a with b's hall as a booking of the set
AsExisting(data, hall) ==
    Booking(0, hall, data.date, data.time, data.endTime, data.department, data.notes)

\* C26: for a candidate a and a booking b of the same hall and date, a as
\* candidate conflicts with b as existing exactly when b as candidate conflicts
\* with a as existing; so do any two bookings of the set with one hall and
\* date.
C26_OverlapSymmetric ==
    /\ \A k \in DOMAIN bookings, data \in BookingInputs :
          bookings[k].date = data.date =>
              ( conflictsWith(bookings[k], CreateModal, bookings[k].hallId, data)
                <=> conflictsWith(AsExisting(data, bookings[k].hallId), CreateModal,
                                  bookings[k].hallId, DataOf(bookings[k])) )
    /\ \A i \in DOMAIN bookings, j \in DOMAIN bookings :
          (bookings[i].hallId = bookings[j].hallId /\ bookings[i].date = bookings[j].date) =>
              ( conflictsWith(bookings[j], CreateModal, bookings[j].hallId, DataOf(bookings[i]))
                <=> conflictsWith(bookings[i], CreateModal, bookings[i].hallId,
                                  DataOf(bookings[j])) )

\* a create was just refused while the set holds a booking that a candidate
\* with another start time overlaps, and a booking that a candidate touches
C26_Witness ==
    /\ last.op = "save"
    /\ ~last.edit
    /\ thrown = "conflict"
    /\ \E k \in DOMAIN bookings, data \in BookingInputs :
          /\ bookings[k].date = data.date
          /\ data.time # bookings[k].time
          /\ conflictsWith(bookings[k], CreateModal, bookings[k].hallId, data)
    /\ \E k \in DOMAIN bookings, data \in BookingInputs :
          /\ bookings[k].date = data.date
          /\ data.endTime = bookings[k].time
          /\ ~conflictsWith(bookings[k], CreateModal, bookings[k].hallId, data)

-----------------------------------------------------------------------------
(* Frame of a create, checked under Spec *)

\* some booking of the selected hall overlaps the candidate on its date
SelectedHallConflict(data) ==
    \E k \in DOMAIN bookings :
        /\ bookings[k].hallId = selectedHall
        /\ bookings[k].date = data.date
        /\ Overlap(data, bookings[k])

\* C27: a create is refused exactly when a booking of the selected hall
\* overlaps the candidate on its date; a create that is not refused adds one
\* booking, in the selected hall, with the candidate's date, time and endTime
\* (and department and notes), leaves every booking that was there unchanged
\* and in its place, closes the modal and sets hasUnsavedChanges.
C27_CreateFrame ==
    (modalInfo.isOpen /\ modalInfo.bookingToEdit = <<>>) =>
        \A data \in BookingInputs, t \in ClockReadings :
            /\ hasConflict(bookings, modalInfo, selectedHall, data)
               <=> SelectedHallConflict(data)
            /\ ~SelectedHallConflict(data) =>
                  /\ Len(AfterSave(data, t).bookings) = Len(bookings) + 1
                  /\ SubSeq(AfterSave(data, t).bookings, 1, Len(bookings)) = bookings
                  /\ AfterSave(data, t).bookings[Len(bookings) + 1].hallId = selectedHall
                  /\ DataOf(AfterSave(data, t).bookings[Len(bookings) + 1]) = data
                  /\ AfterSave(data, t).modalInfo = ClosedModal
                  /\ AfterSave(data, t).hasUnsavedChanges = TRUE
                  /\ AfterSave(data, t).thrown = "none"

\* a create was just committed in the second hall while the first hall holds a
\* booking that overlaps it in time on the same date
C27_Witness ==
    /\ last.op = "save"
    /\ ~last.edit
    /\ thrown = "none"
    /\ hasUnsavedChanges
    /\ modalInfo = ClosedModal
    /\ selectedHall = AlDana
    /\ Len(bookings) = 2
    /\ bookings[1].hallId = AlWaha
    /\ bookings[2].hallId = AlDana
    /\ bookings[1].date = bookings[2].date
    /\ Overlap(bookings[2], bookings[1])

\* the first and the last sheet column of the slot columns
FirstSlotColumn == 3
LastSlotColumn == 3 + N - 1

\* C28: for any bookings of the day the exported row has 3 + N + 1 entries
\* (index, weekday, date, N slot columns, notes), as many as the column header
\* row; every merge region added for the row lies in that row, within the slot
\* columns, and no two of them share a column.
C28_ExportRowShape ==
    "export" \in done =>
        /\ Len(row) = 3 + N + 1
        /\ Len(row) = Len(headerRow2)
        /\ row[1].kind = "index" /\ row[2].kind = "weekday" /\ row[3].kind = "date"
        /\ row[Len(row)].kind = "notes"
        /\ \A p \in 4..(Len(row) - 1) : row[p].kind \in {"department", "null", "blank"}
        /\ \A m \in DOMAIN merges :
              /\ merges[m].s.r = FirstRowIndex
              /\ merges[m].e.r = FirstRowIndex
              /\ FirstSlotColumn <= merges[m].s.c
              /\ merges[m].s.c <= merges[m].e.c
              /\ merges[m].e.c <= LastSlotColumn
        /\ \A m \in DOMAIN merges, n \in DOMAIN merges :
              m # n => (merges[m].e.c < merges[n].s.c \/ merges[n].e.c < merges[m].s.c)

\* the export was applied to a day that gave two merge regions, the second one
\* reaching the last slot column
C28_Witness ==
    /\ "export" \in done
    /\ Len(merges) = 2
    /\ merges[2].e.c = LastSlotColumn
    /\ Len(dayBookings) = 2

-----------------------------------------------------------------------------
(* Colours of the rendered bookings, checked under SpecRender *)

\* C23: within one session, once a booking id has been rendered with a palette
\* colour, every later render of that id uses the same colour, across creates
\* and deletes of other bookings, changes of month and hall, and switches
\* between the calendar and the dashboard.
C23_StableColour ==
    [][ \A id \in DOMAIN painted \cap DOMAIN painted' : painted'[id] = painted[id] ]_vars

-----------------------------------------------------------------------------
(* The modal's initial data and the save confirmation, checked under
   SpecCalendar *)

\* the modal state a click on the empty cell of `time` in the row of `day`
\* leaves
OpenedAt(day, time) ==
    [isOpen |-> TRUE, bookingToEdit |-> <<>>, date |-> <<day>>, time |-> <<time>>]

\* the initial data of modal state mi propose the clicked date, the clicked
\* label as start and the next label of the full grid as end
OneSlotDefault(mi) ==
    /\ getModalInitialData(mi) # <<>>
    /\ getModalInitialData(mi)[1].date = mi.date[1]
    /\ \E i \in 0..(N - 1) :
          /\ mi.time[1] = timeSlots[i + 1]
          /\ getModalInitialData(mi)[1].time = timeSlots[i + 1]
          /\ getModalInitialData(mi)[1].endTime = timeSlots[i + 2]
          /\ i = N - 1 => getModalInitialData(mi)[1].endTime = Sentinel
    /\ getModalInitialData(mi)[1].time < getModalInitialData(mi)[1].endTime
    /\ getModalInitialData(mi)[1].endTime # EmptyTime

\* C29: a modal opened by a click on an empty cell at slot index i, 0 <= i < N,
\* proposes the label at i as start and the label at i + 1 of the full grid as
\* endTime (the last label for the last column): a valid one-slot range whose
\* endTime is never empty.  It holds of the open modal and of the modal that a
\* click on any empty cell of a displayed row would open.
C29_DefaultEndTime ==
    /\ (modalInfo.isOpen /\ modalInfo.bookingToEdit = <<>>) => OneSlotDefault(modalInfo)
    /\ \A day \in Days :
          \A cell \in Range(ScreenRow(bookings, selectedHall, day)) :
              cell.kind = "empty" => OneSlotDefault(OpenedAt(day, cell.time))

\* the modal was opened by a click on the empty cell of the last column while
\* the row holds a booking
C29_Witness ==
    /\ modalInfo.isOpen
    /\ modalInfo.bookingToEdit = <<>>
    /\ modalInfo.time = <<timeSlots[N]>>
    /\ getModalInitialData(modalInfo)[1].endTime = Sentinel
    /\ \E k \in DOMAIN bookings :
          bookings[k].hallId = selectedHall /\ <<bookings[k].date>> = modalInfo.date

\* C30: from a save confirmation until the reset timer it set fires,
\* saveStatus is 'saved': while a reset timer is pending (the last of them is
\* the one of the latest confirmation) no earlier timer has put saveStatus
\* back to 'idle'.
C30_SavedUntilOwnTimer ==
    timers > 0 => saveStatus = "saved"

====
